---------------------------- MODULE Spec2Model ----------------------------
(***************************************************************************)
(* A model of src/convertToPropTypes.ts: the conversion of TypeScript type *)
(* annotations (Babel AST nodes) into PropTypes validator expressions.     *)
(*                                                                         *)
(* AST nodes are records carrying Babel's `type` tag and fields.  Strings  *)
(* on which the code computes (type names, the React import alias) are     *)
(* sequences of one-character strings, so that template concatenation,     *)
(* equality and endsWith are computed exactly.  Identifier names that the  *)
(* code only builds or passes through are TLA+ strings.                    *)
(***************************************************************************)
EXTENDS Integers, Sequences, FiniteSets, TLC

VARIABLES
    fn,                 \* the function that was called ("none" before a call)
    type,               \* convert: the `type` argument
    propType,           \* wrapIsRequired: the `propType` argument
    optional,           \* wrapIsRequired: the `optional` argument
    properties,         \* convertListToProps: the `properties` argument
    types,              \* convertToPropTypes: the `types` mapping
    typeNames,          \* convertToPropTypes: the `typeNames` list
    reactImportedName,  \* the `reactImportedName` argument
    ret                 \* the value returned by the call

vars == <<fn, type, propType, optional, properties, types, typeNames,
          reactImportedName, ret>>

(***************************************************************************)
(* Bounds of the input universe.                                           *)
(***************************************************************************)
MaxMembers == 2      \* members of a type literal / of a union or intersection
MaxProps == 3        \* properties in a list given to convertListToProps
MaxGroupProps == 2   \* properties in a type group given to convertToPropTypes
MaxTypeNames == 3    \* names in the typeNames list

(***************************************************************************)
(* String literals of the source, as character sequences.                  *)
(***************************************************************************)
STR_Dot == <<".">>
STR_React == <<"R","e","a","c","t">>
STR_JSX == <<"J","S","X">>
STR_ReactText == <<"R","e","a","c","t","T","e","x","t">>
STR_ReactNode == <<"R","e","a","c","t","N","o","d","e">>
STR_ReactType == <<"R","e","a","c","t","T","y","p","e">>
STR_ComponentType == <<"C","o","m","p","o","n","e","n","t","T","y","p","e">>
STR_ComponentClass == <<"C","o","m","p","o","n","e","n","t","C","l","a","s","s">>
STR_StatelessComponent == <<"S","t","a","t","e","l","e","s","s","C","o","m","p","o","n","e","n","t">>
STR_Element == <<"E","l","e","m","e","n","t">>
STR_ReactElement == <<"R","e","a","c","t","E","l","e","m","e","n","t">>
STR_SFCElement == <<"S","F","C","E","l","e","m","e","n","t">>
STR_Ref == <<"R","e","f">>
STR_Handler == <<"H","a","n","d","l","e","r">>
STR_Event == <<"E","v","e","n","t">>

(***************************************************************************)
(* JavaScript values and string operations used by the code.               *)
(***************************************************************************)
Null == [type |-> "null"]

\* The truthiness of an `optional?: boolean | null` flag.
ToBoolean(v) == v = "true"

\* String.prototype.endsWith
endsWith(s, suffix) ==
    /\ Len(s) >= Len(suffix)
    /\ SubSeq(s, Len(s) - Len(suffix) + 1, Len(s)) = suffix

(***************************************************************************)
(* Babel builders (t.identifier, t.memberExpression, ...) and predicates   *)
(* (t.isTSStringKeyword, ...).                                             *)
(***************************************************************************)
identifier(name) == [type |-> "Identifier", name |-> name]

memberExpression(object, property) ==
    [type |-> "MemberExpression", object |-> object, property |-> property]

callExpression(callee, arguments) ==
    [type |-> "CallExpression", callee |-> callee, arguments |-> arguments]

arrayExpression(elements) == [type |-> "ArrayExpression", elements |-> elements]

objectExpression(props) == [type |-> "ObjectExpression", properties |-> props]

objectProperty(key, value) == [type |-> "ObjectProperty", key |-> key, value |-> value]

isTSParenthesizedType(node) == node.type = "TSParenthesizedType"
isTSStringKeyword(node) == node.type = "TSStringKeyword"
isTSNumberKeyword(node) == node.type = "TSNumberKeyword"
isTSBooleanKeyword(node) == node.type = "TSBooleanKeyword"
isTSSymbolKeyword(node) == node.type = "TSSymbolKeyword"
isTSFunctionType(node) == node.type = "TSFunctionType"
isTSTypeReference(node) == node.type = "TSTypeReference"
isTSArrayType(node) == node.type = "TSArrayType"
isTSTypeLiteral(node) == node.type = "TSTypeLiteral"
isTSIndexSignature(node) == node.type = "TSIndexSignature"
isTSPropertySignature(node) == node.type = "TSPropertySignature"
isTSUnionType(node) == node.type = "TSUnionType"
isTSIntersectionType(node) == node.type = "TSIntersectionType"
isTSLiteralType(node) == node.type = "TSLiteralType"

\* Array.prototype.filter with t.isTSPropertySignature
RECURSIVE filterPropertySignatures(_)
filterPropertySignatures(members) ==
    IF members = <<>> THEN <<>>
    ELSE IF isTSPropertySignature(Head(members))
         THEN <<Head(members)>> \o filterPropertySignatures(Tail(members))
         ELSE filterPropertySignatures(Tail(members))

\* Array.prototype.every with t.isTSLiteralType
everyIsLiteral(ts) == \A i \in 1..Len(ts) : isTSLiteralType(ts[i])

\* Array.prototype.map with param => param.literal
mapLiteral(ts) == [i \in 1..Len(ts) |-> ts[i].literal]

(***************************************************************************)
(* ./getTypeName: the dotted name of an Identifier or TSQualifiedName.     *)
(***************************************************************************)
RECURSIVE getTypeName(_)
getTypeName(typeName) ==
    IF typeName.type = "Identifier" THEN typeName.name
    ELSE IF typeName.type = "TSQualifiedName"
         THEN getTypeName(typeName.left) \o STR_Dot \o typeName.right.name
         ELSE <<>>

(***************************************************************************)
(* src/convertToPropTypes.ts                                               *)
(***************************************************************************)
isReactTypeMatch_NoAlias(name, target, importedName) ==
    name = target \/ name = STR_React \o STR_Dot \o target

isReactTypeMatch(name, target, importedName) ==
    \/ name = target
    \/ name = STR_React \o STR_Dot \o target
    \/ name = importedName \o STR_Dot \o target

wrapIsRequired_NullishOptional(pt, opt) ==
    IF opt \in {"true", "null", "undefined"} THEN pt
    ELSE memberExpression(pt, identifier("isRequired"))

wrapIsRequired(pt, opt) ==
    IF ToBoolean(opt) THEN pt ELSE memberExpression(pt, identifier("isRequired"))

createMember(value) == memberExpression(identifier("PropTypes"), value)

createCall(value, args) == callExpression(createMember(value), args)

RECURSIVE convert(_, _)
RECURSIVE convertArray(_, _)
RECURSIVE convertListToProps(_, _)

\* lines 57-96: the TSTypeReference branch of convert
convertTypeReference(node, importedName) ==
    LET name == getTypeName(node.typeName) IN
    IF \/ isReactTypeMatch(name, STR_ReactText, importedName)
       \/ isReactTypeMatch(name, STR_ReactNode, importedName)
       \/ isReactTypeMatch(name, STR_ReactType, importedName)
       \/ isReactTypeMatch(name, STR_ComponentType, importedName)
       \/ isReactTypeMatch(name, STR_ComponentClass, importedName)
       \/ isReactTypeMatch(name, STR_StatelessComponent, importedName)
    THEN createMember(identifier("node"))
    ELSE IF \/ isReactTypeMatch(name, STR_Element, STR_JSX)
            \/ isReactTypeMatch(name, STR_ReactElement, importedName)
            \/ isReactTypeMatch(name, STR_SFCElement, importedName)
    THEN createMember(identifier("element"))
    ELSE IF isReactTypeMatch(name, STR_Ref, importedName)
    THEN createCall(identifier("oneOfType"),
                    <<arrayExpression(<<createMember(identifier("string")),
                                        createMember(identifier("func")),
                                        createMember(identifier("object"))>>)>>)
    ELSE IF endsWith(name, STR_Handler)
    THEN createMember(identifier("func"))
    ELSE IF endsWith(name, STR_Event)
    THEN createMember(identifier("object"))
    ELSE Null

\* lines 99-104: the TSArrayType branch of convert
convertArrayType_FailsWhole(node, importedName) ==
    LET args == convertArray(<<node.elementType>>, importedName) IN
    IF Len(args) > 0
    THEN createCall(identifier("arrayOf"), args)
    ELSE Null

convertArrayType(node, importedName) ==
    LET args == convertArray(<<node.elementType>>, importedName) IN
    IF Len(args) > 0
    THEN createCall(identifier("arrayOf"), args)
    ELSE createMember(identifier("array"))

\* lines 109-138: the TSTypeLiteral branch of convert
convertTypeLiteral_ObjectFallback(node, importedName) ==
    IF Len(node.members) = 0
    THEN createMember(identifier("object"))
    ELSE IF Len(node.members) = 1 /\ isTSIndexSignature(node.members[1])
    THEN LET index == node.members[1] IN
         IF index.typeAnnotation # Null /\ index.typeAnnotation.typeAnnotation # Null
         THEN LET result == convert(index.typeAnnotation.typeAnnotation, importedName) IN
              IF result # Null
              THEN createCall(identifier("objectOf"), <<result>>)
              ELSE createMember(identifier("object"))
         ELSE createMember(identifier("object"))
    ELSE createCall(identifier("shape"),
                    <<objectExpression(
                        convertListToProps(filterPropertySignatures(node.members),
                                           importedName))>>)

convertTypeLiteral(node, importedName) ==
    IF Len(node.members) = 0
    THEN createMember(identifier("object"))
    ELSE IF Len(node.members) = 1 /\ isTSIndexSignature(node.members[1])
    THEN LET index == node.members[1] IN
         IF index.typeAnnotation # Null /\ index.typeAnnotation.typeAnnotation # Null
         THEN LET result == convert(index.typeAnnotation.typeAnnotation, importedName) IN
              IF result # Null
              THEN createCall(identifier("objectOf"), <<result>>)
              ELSE Null
         ELSE Null
    ELSE createCall(identifier("shape"),
                    <<objectExpression(
                        convertListToProps(filterPropertySignatures(node.members),
                                           importedName))>>)

\* lines 142-158: the TSUnionType / TSIntersectionType branch of convert
convertUnionType_EmptyList(node, importedName) ==
    IF everyIsLiteral(node.types)
    THEN createCall(identifier("oneOf"), <<arrayExpression(mapLiteral(node.types))>>)
    ELSE createCall(identifier("oneOfType"),
                    <<arrayExpression(convertArray(node.types, importedName))>>)

convertUnionType(node, importedName) ==
    LET isAllLiterals == everyIsLiteral(node.types)
        args == IF isAllLiterals THEN mapLiteral(node.types)
                ELSE convertArray(node.types, importedName)
        label == IF isAllLiterals THEN identifier("oneOf") ELSE identifier("oneOfType")
    IN IF Len(args) > 0
       THEN createCall(label, <<arrayExpression(args)>>)
       ELSE Null

\* lines 24-161
convert(type0, importedName) ==
    LET node == IF isTSParenthesizedType(type0) THEN type0.typeAnnotation ELSE type0 IN
    IF isTSStringKeyword(node) THEN createMember(identifier("string"))
    ELSE IF isTSNumberKeyword(node) THEN createMember(identifier("number"))
    ELSE IF isTSBooleanKeyword(node) THEN createMember(identifier("bool"))
    ELSE IF isTSSymbolKeyword(node) THEN createMember(identifier("symbol"))
    ELSE IF isTSFunctionType(node) THEN createMember(identifier("func"))
    ELSE IF isTSTypeReference(node) THEN convertTypeReference(node, importedName)
    ELSE IF isTSArrayType(node) THEN convertArrayType(node, importedName)
    ELSE IF isTSTypeLiteral(node) THEN convertTypeLiteral(node, importedName)
    ELSE IF isTSUnionType(node) \/ isTSIntersectionType(node)
    THEN convertUnionType(node, importedName)
    ELSE Null

\* lines 166-172: the forEach callback of convertArray, on the accumulator
convertArray_push_Required(propTypes, node, importedName) ==
    LET prop == convert(node, importedName) IN
    IF prop # Null
    THEN Append(propTypes, memberExpression(prop, identifier("isRequired")))
    ELSE propTypes

convertArray_push(propTypes, node, importedName) ==
    LET prop == convert(node, importedName) IN
    IF prop # Null THEN Append(propTypes, prop) ELSE propTypes

RECURSIVE convertArray_forEach(_, _, _, _)
convertArray_forEach(propTypes, ts, i, importedName) ==
    IF i > Len(ts) THEN propTypes
    ELSE convertArray_forEach(convertArray_push(propTypes, ts[i], importedName),
                              ts, i + 1, importedName)

\* lines 163-175
convertArray(ts, importedName) == convertArray_forEach(<<>>, ts, 1, importedName)

\* lines 183-193: the forEach callback of convertListToProps, on the accumulator
convertListToProps_push_Abort(propTypes, property, importedName) ==
    IF property.typeAnnotation = Null THEN propTypes
    ELSE LET pt == convert(property.typeAnnotation.typeAnnotation, importedName) IN
         IF pt # Null
         THEN Append(propTypes,
                     objectProperty(property.key, wrapIsRequired(pt, property.optional)))
         ELSE <<>>

convertListToProps_push_KeepsUntyped(propTypes, property, importedName) ==
    IF property.typeAnnotation = Null
    THEN Append(propTypes,
                objectProperty(property.key,
                               wrapIsRequired(createMember(identifier("any")),
                                              property.optional)))
    ELSE LET pt == convert(property.typeAnnotation.typeAnnotation, importedName) IN
         IF pt # Null
         THEN Append(propTypes,
                     objectProperty(property.key, wrapIsRequired(pt, property.optional)))
         ELSE propTypes

convertListToProps_push(propTypes, property, importedName) ==
    IF property.typeAnnotation = Null THEN propTypes
    ELSE LET pt == convert(property.typeAnnotation.typeAnnotation, importedName) IN
         IF pt # Null
         THEN Append(propTypes,
                     objectProperty(property.key, wrapIsRequired(pt, property.optional)))
         ELSE propTypes

RECURSIVE convertListToProps_forEach(_, _, _, _)
convertListToProps_forEach(propTypes, props, i, importedName) ==
    IF i > Len(props) THEN propTypes
    ELSE convertListToProps_forEach(
             convertListToProps_push(propTypes, props[i], importedName),
             props, i + 1, importedName)

\* lines 177-196
convertListToProps(props, importedName) ==
    convertListToProps_forEach(<<>>, props, 1, importedName)

\* lines 205-209: the forEach callback of convertToPropTypes, on the accumulator
convertToPropTypes_push_Replace(props, groups, typeName, importedName) ==
    IF typeName \in DOMAIN groups
    THEN convertListToProps(groups[typeName], importedName)
    ELSE props

convertToPropTypes_push(props, groups, typeName, importedName) ==
    IF typeName \in DOMAIN groups
    THEN props \o convertListToProps(groups[typeName], importedName)
    ELSE props

RECURSIVE convertToPropTypes_forEach(_, _, _, _, _)
convertToPropTypes_forEach(props, groups, names, i, importedName) ==
    IF i > Len(names) THEN props
    ELSE convertToPropTypes_forEach(
             convertToPropTypes_push(props, groups, names[i], importedName),
             groups, names, i + 1, importedName)

\* lines 198-212
convertToPropTypes(groups, names, importedName) ==
    convertToPropTypes_forEach(<<>>, groups, names, 1, importedName)

(***************************************************************************)
(* The input universe: Babel TypeScript nodes as the parser builds them.   *)
(***************************************************************************)
STR_MyAlias == <<"M","y","A","l","i","a","s">>
STR_Other == <<"O","t","h","e","r">>
STR_MouseEventHandler == <<"M","o","u","s","e","E","v","e","n","t","H","a","n","d","l","e","r">>
STR_MouseEvent == <<"M","o","u","s","e","E","v","e","n","t">>
STR_Foo == <<"F","o","o">>

TSKeyword(kind) == [type |-> kind]
TSString == TSKeyword("TSStringKeyword")
TSNumber == TSKeyword("TSNumberKeyword")
TSBoolean == TSKeyword("TSBooleanKeyword")
TSSymbol == TSKeyword("TSSymbolKeyword")
TSAny == TSKeyword("TSAnyKeyword")
TSFunction == TSKeyword("TSFunctionType")
StringLiteral(v) == [type |-> "StringLiteral", value |-> v]
TSLiteralType(lit) == [type |-> "TSLiteralType", literal |-> lit]
TSParenthesizedType(t) == [type |-> "TSParenthesizedType", typeAnnotation |-> t]
TSArrayType(t) == [type |-> "TSArrayType", elementType |-> t]
TSTypeLiteral(members) == [type |-> "TSTypeLiteral", members |-> members]
TSUnionType(ts) == [type |-> "TSUnionType", types |-> ts]
TSIntersectionType(ts) == [type |-> "TSIntersectionType", types |-> ts]
TSTypeAnnotation(t) == [type |-> "TSTypeAnnotation", typeAnnotation |-> t]
TSPropertySignature(key, ann, opt) ==
    [type |-> "TSPropertySignature", key |-> key, typeAnnotation |-> ann, optional |-> opt]
TSIndexSignature(ann) == [type |-> "TSIndexSignature", typeAnnotation |-> ann]
TSMethodSignature == [type |-> "TSMethodSignature"]
TSQualifiedName(left, right) == [type |-> "TSQualifiedName", left |-> left, right |-> right]
TSTypeParameterInstantiation(params) ==
    [type |-> "TSTypeParameterInstantiation", params |-> params]
TSTypeReference(typeName, typeParameters) ==
    [type |-> "TSTypeReference", typeName |-> typeName, typeParameters |-> typeParameters]

SeqsOf(S, lo, hi) == UNION {[1..n -> S] : n \in lo..hi}

LitA == TSLiteralType(StringLiteral("a"))
LitB == TSLiteralType(StringLiteral("b"))
RefAliasNode == TSTypeReference(TSQualifiedName(identifier(STR_MyAlias),
                                                identifier(STR_ReactNode)), Null)

Aliases == {STR_React, STR_MyAlias, STR_Other}
Optionals == {"true", "false", "null", "undefined"}

\* The key of the i-th property of a declaration.
KeyNames == <<"label", "onClick", "items", "style", "children", "extra">>
KeyAt(i) == identifier(KeyNames[i])

\* A member list with the property signatures keyed by their position.
Keyed(members) ==
    [i \in 1..Len(members) |->
        IF isTSPropertySignature(members[i])
        THEN [members[i] EXCEPT !.key = KeyAt(i)]
        ELSE members[i]]

Keywords == {TSString, TSNumber, TSBoolean, TSSymbol, TSFunction, TSAny}
Atoms == {TSString, TSNumber, TSAny, LitA, LitB, RefAliasNode}
MemberAnnotations == {Null, TSTypeAnnotation(TSString), TSTypeAnnotation(TSAny)}
Members ==
    {TSPropertySignature(KeyAt(1), ann, opt) :
        ann \in MemberAnnotations, opt \in {"true", "false"}}
    \cup {TSIndexSignature(ann) : ann \in MemberAnnotations}
    \cup {TSMethodSignature}

TypeLiterals == {TSTypeLiteral(Keyed(ms)) : ms \in SeqsOf(Members, 0, MaxMembers)}
Unions ==
    {TSUnionType(ts) : ts \in SeqsOf(Atoms, 1, MaxMembers)}
    \cup {TSIntersectionType(ts) : ts \in SeqsOf(Atoms, 1, MaxMembers)}

Nodes1 ==
    Keywords \cup Atoms
    \cup {TSParenthesizedType(t) : t \in Atoms}
    \cup {TSArrayType(t) : t \in Atoms}
    \cup TypeLiterals \cup Unions

Nested ==
    UNION {{TSParenthesizedType(t),
            TSArrayType(t),
            TSTypeLiteral(<<TSIndexSignature(TSTypeAnnotation(t))>>),
            TSTypeLiteral(<<TSPropertySignature(KeyAt(1), TSTypeAnnotation(t), "false")>>),
            TSTypeLiteral(<<TSPropertySignature(KeyAt(1), TSTypeAnnotation(t), "true"),
                            TSPropertySignature(KeyAt(2), TSTypeAnnotation(TSString),
                                                "undefined")>>),
            TSUnionType(<<t>>),
            TSUnionType(<<t, TSString>>),
            TSUnionType(<<LitA, t>>),
            TSIntersectionType(<<TSAny, t>>)} : t \in Nodes1}

ReferenceNames ==
    {STR_ReactText, STR_ReactNode, STR_ReactType, STR_ComponentType, STR_ComponentClass,
     STR_StatelessComponent, STR_Element, STR_ReactElement, STR_SFCElement, STR_Ref,
     STR_Handler, STR_Event, STR_MouseEventHandler, STR_MouseEvent, STR_Foo}
Namespaces == {STR_React, STR_JSX, STR_MyAlias, STR_Other}
References ==
    {TSTypeReference(tn, tp) :
        tn \in {identifier(n) : n \in ReferenceNames}
               \cup {TSQualifiedName(identifier(ns), identifier(n)) :
                        ns \in Namespaces, n \in ReferenceNames},
        tp \in {Null, TSTypeParameterInstantiation(<<TSString>>)}}

ConvertInputs == Nodes1 \cup Nested \cup References

Validators == {convert(t, STR_React) : t \in Nodes1} \ {Null}

ListAnnotations ==
    {Null, TSTypeAnnotation(TSString), TSTypeAnnotation(TSFunction),
     TSTypeAnnotation(TSArrayType(TSString)), TSTypeAnnotation(TSAny)}
ListSignatures ==
    {TSPropertySignature(KeyAt(1), ann, opt) :
        ann \in ListAnnotations, opt \in {"true", "false", "undefined"}}
PropertyLists ==
    {Keyed(ps) : ps \in SeqsOf(ListSignatures, 0, MaxProps)}
    \cup {<<TSPropertySignature(KeyAt(1), TSTypeAnnotation(t), opt)>> :
            t \in Nodes1, opt \in Optionals}

GroupSignatures ==
    {TSPropertySignature(KeyAt(1), TSTypeAnnotation(TSString), "false"),
     TSPropertySignature(KeyAt(1), TSTypeAnnotation(TSString), "true"),
     TSPropertySignature(KeyAt(1), TSTypeAnnotation(TSAny), "false"),
     TSPropertySignature(KeyAt(1), Null, "false")}
PropsGroups == {Keyed(ps) : ps \in SeqsOf(GroupSignatures, 0, MaxGroupProps)}
ExtraGroups ==
    {<<>>,
     <<TSPropertySignature(identifier("extra"), TSTypeAnnotation(TSNumber), "true")>>,
     <<TSPropertySignature(identifier("extra"), TSTypeAnnotation(TSAny), "false")>>,
     <<TSPropertySignature(identifier("extra"), TSTypeAnnotation(RefAliasNode), "null")>>}
TypeGroups ==
    {[n \in {"Props", "Extra"} |-> IF n = "Props" THEN p ELSE e] :
        p \in PropsGroups, e \in ExtraGroups}
    \cup {[n \in {"Props"} |-> p] : p \in PropsGroups}
    \cup {[n \in {"Extra"} |-> e] : e \in ExtraGroups}
    \cup {<<>>}
TypeNameLists == SeqsOf({"Props", "Extra", "Missing"}, 0, MaxTypeNames)

(***************************************************************************)
(* The state machine: one call of one of the module's functions.           *)
(***************************************************************************)
Init ==
    /\ fn = "none"
    /\ type = Null
    /\ propType = Null
    /\ optional = "undefined"
    /\ properties = <<>>
    /\ types = <<>>
    /\ typeNames = <<>>
    /\ reactImportedName = <<>>
    /\ ret = Null

Convert ==
    /\ fn = "none"
    /\ \E t \in ConvertInputs, a \in Aliases :
        /\ fn' = "convert"
        /\ type' = t
        /\ reactImportedName' = a
        /\ ret' = convert(t, a)
    /\ UNCHANGED <<propType, optional, properties, types, typeNames>>

WrapIsRequired ==
    /\ fn = "none"
    /\ \E v \in Validators, o \in Optionals :
        /\ fn' = "wrapIsRequired"
        /\ propType' = v
        /\ optional' = o
        /\ ret' = wrapIsRequired(v, o)
    /\ UNCHANGED <<type, properties, types, typeNames, reactImportedName>>

ConvertListToProps ==
    /\ fn = "none"
    /\ \E ps \in PropertyLists, a \in {STR_React, STR_MyAlias} :
        /\ fn' = "convertListToProps"
        /\ properties' = ps
        /\ reactImportedName' = a
        /\ ret' = convertListToProps(ps, a)
    /\ UNCHANGED <<type, propType, optional, types, typeNames>>

ConvertToPropTypes ==
    /\ fn = "none"
    /\ \E g \in TypeGroups, ns \in TypeNameLists, a \in {STR_React, STR_MyAlias} :
        /\ fn' = "convertToPropTypes"
        /\ types' = g
        /\ typeNames' = ns
        /\ reactImportedName' = a
        /\ ret' = convertToPropTypes(g, ns, a)
    /\ UNCHANGED <<type, propType, optional, properties>>

Next == Convert \/ WrapIsRequired \/ ConvertListToProps \/ ConvertToPropTypes

Spec == Init /\ [][Next]_vars

(***************************************************************************)
(* Expected expressions, written out node by node.                         *)
(***************************************************************************)
Ident(name) == [type |-> "Identifier", name |-> name]
PT(name) ==
    [type |-> "MemberExpression", object |-> Ident("PropTypes"), property |-> Ident(name)]
Arr(elements) == [type |-> "ArrayExpression", elements |-> elements]
Obj(props) == [type |-> "ObjectExpression", properties |-> props]
PTCall(name, arguments) ==
    [type |-> "CallExpression", callee |-> PT(name), arguments |-> arguments]
Required(v) ==
    [type |-> "MemberExpression", object |-> v, property |-> Ident("isRequired")]
Assign(key, v) == [type |-> "ObjectProperty", key |-> Ident(key), value |-> v]

IsRequiredNode(e) == e.type = "MemberExpression" /\ e.property = Ident("isRequired")

\* The members of a property list that are typed and whose type converts.
Classifiable(props, a) ==
    SelectSeq(props, LAMBDA p : /\ p.typeAnnotation # Null
                                /\ convert(p.typeAnnotation.typeAnnotation, a) # Null)

C2_ExampleProps ==
    <<TSPropertySignature(Ident("label"), TSTypeAnnotation(TSString), "false"),
      TSPropertySignature(Ident("onClick"), TSTypeAnnotation(TSFunction), "true"),
      TSPropertySignature(Ident("items"), TSTypeAnnotation(TSArrayType(TSString)), "false")>>

C2_ExampleOutput ==
    <<Assign("label", Required(PT("string"))),
      Assign("onClick", PT("func")),
      Assign("items", Required(PTCall("arrayOf", <<PT("string")>>)))>>

\* C2: convertListToProps emits, per member in input order, nothing (no type
\* annotation, or convert returns null) or one assignment with the member's key
\* and value wrapIsRequired(convert(annotation), optional); the example list
\* Props yields label: string.isRequired, onClick: func,
\* items: arrayOf(string).isRequired.
C2_OneAssignmentPerConvertedMember ==
    fn = "convertListToProps" =>
        LET n == Len(properties)
            Emits(i) ==
                /\ properties[i].typeAnnotation # Null
                /\ convert(properties[i].typeAnnotation.typeAnnotation,
                           reactImportedName) # Null
            Pos(i) == Cardinality({k \in 1..i : Emits(k)})
        IN /\ Len(ret) = Pos(n)
           /\ \A i \in 1..n : Emits(i) =>
                /\ ret[Pos(i)].type = "ObjectProperty"
                /\ ret[Pos(i)].key = properties[i].key
                /\ ret[Pos(i)].value =
                     wrapIsRequired(convert(properties[i].typeAnnotation.typeAnnotation,
                                            reactImportedName),
                                    properties[i].optional)
           /\ properties = C2_ExampleProps => ret = C2_ExampleOutput

C2_Witness ==
    /\ fn = "convertListToProps"
    /\ properties = C2_ExampleProps
    /\ Len(ret) = 3

\* C3: wrapIsRequired(v, optional) returns v unchanged when optional is true
\* and v.isRequired when optional is false, null or absent; the optional and
\* the non-optional output of a property differ only by the outermost
\* .isRequired.
C3_WrapOnlyWhenNotOptional ==
    /\ fn = "wrapIsRequired" =>
        /\ optional = "true" => ret = propType
        /\ optional \in {"false", "null", "undefined"} => ret = Required(propType)
    /\ (fn = "convertListToProps" /\ Len(properties) = 1) =>
        LET p == properties[1]
            opt == convertListToProps(<<[p EXCEPT !.optional = "true"]>>, reactImportedName)
            req == convertListToProps(<<[p EXCEPT !.optional =
                                            IF p.optional = "true" THEN "false"
                                            ELSE p.optional]>>, reactImportedName)
        IN /\ Len(opt) = Len(req)
           /\ ret = IF p.optional = "true" THEN opt ELSE req
           /\ Len(opt) = 1 =>
                /\ req[1].key = opt[1].key
                /\ req[1].value = Required(opt[1].value)
                /\ ~IsRequiredNode(opt[1].value)

C3_Witness ==
    /\ fn = "wrapIsRequired"
    /\ optional = "null"
    /\ propType = PTCall("arrayOf", <<PT("string")>>)
    /\ ret = Required(propType)

C4_Matches(n, T, x) == n \in {T, STR_React \o <<".">> \o T, x \o <<".">> \o T}

C4_HasSuffix(n, suffix) == \E k \in 0..Len(n) : n = SubSeq(n, 1, k) \o suffix

C4_Expected(n, a) ==
    IF \E T \in {STR_ReactText, STR_ReactNode, STR_ReactType, STR_ComponentType,
                 STR_ComponentClass, STR_StatelessComponent} : C4_Matches(n, T, a)
    THEN PT("node")
    ELSE IF \/ C4_Matches(n, STR_Element, STR_JSX)
            \/ C4_Matches(n, STR_ReactElement, a)
            \/ C4_Matches(n, STR_SFCElement, a)
    THEN PT("element")
    ELSE IF C4_Matches(n, STR_Ref, a)
    THEN PTCall("oneOfType", <<Arr(<<PT("string"), PT("func"), PT("object")>>)>>)
    ELSE IF C4_HasSuffix(n, STR_Handler) THEN PT("func")
    ELSE IF C4_HasSuffix(n, STR_Event) THEN PT("object")
    ELSE Null

\* C4: a TypeReference with resolved name n under alias a converts by the first
\* matching rule: the six node names -> node; Element under JSX, or
\* ReactElement / SFCElement under a -> element; Ref -> oneOfType([string, func,
\* object]) whatever the type arguments; suffix Handler -> func; suffix Event ->
\* object; otherwise null.  n matches T under x when n is T, React.T or x.T.
C4_TypeReferenceRules ==
    (fn = "convert" /\ type.type = "TSTypeReference") =>
        /\ ret = C4_Expected(getTypeName(type.typeName), reactImportedName)
        /\ type.typeName = RefAliasNode.typeName =>
             ret = IF reactImportedName = STR_MyAlias THEN PT("node") ELSE Null

C4_Witness ==
    /\ fn = "convert"
    /\ type = RefAliasNode
    /\ reactImportedName = STR_MyAlias
    /\ ret = PT("node")

C5_PropertyMembers(ms) == SelectSeq(ms, LAMBDA m : m.type = "TSPropertySignature")

C5_Shape(ms, a) == PTCall("shape", <<Obj(convertListToProps(C5_PropertyMembers(ms), a))>>)

\* C5 (as stated): a TypeLiteral converts to object with zero members; to
\* objectOf(V), or null when the value type fails, with exactly one member that
\* is an index signature with a typed value; and to shape({...}) of its property
\* signatures in every other case, a lone index signature without a value type
\* included.
C5_LoneUntypedIndexIsShape ==
    (fn = "convert" /\ type.type = "TSTypeLiteral") =>
        LET ms == type.members IN
        IF Len(ms) = 0 THEN ret = PT("object")
        ELSE IF /\ Len(ms) = 1
                /\ ms[1].type = "TSIndexSignature"
                /\ ms[1].typeAnnotation # Null
        THEN LET V == convert(ms[1].typeAnnotation.typeAnnotation, reactImportedName)
             IN ret = IF V # Null THEN PTCall("objectOf", <<V>>) ELSE Null
        ELSE ret = C5_Shape(ms, reactImportedName) /\ ret # Null

\* C5 (amended): as above, except that a lone index signature without a value
\* type converts to null; shape({...}) is the result with two or more members
\* or with exactly one member that is not an index signature.
C5_LoneUntypedIndexIsNull ==
    (fn = "convert" /\ type.type = "TSTypeLiteral") =>
        LET ms == type.members IN
        IF Len(ms) = 0 THEN ret = PT("object")
        ELSE IF Len(ms) = 1 /\ ms[1].type = "TSIndexSignature"
        THEN IF ms[1].typeAnnotation # Null
             THEN LET V == convert(ms[1].typeAnnotation.typeAnnotation, reactImportedName)
                  IN ret = IF V # Null THEN PTCall("objectOf", <<V>>) ELSE Null
             ELSE ret = Null
        ELSE ret = C5_Shape(ms, reactImportedName) /\ ret # Null

C5_Witness ==
    /\ fn = "convert"
    /\ type = TSTypeLiteral(<<TSIndexSignature(Null)>>)
    /\ ret = Null

\* C6: a UnionType or IntersectionType converts to oneOf([literals, verbatim,
\* in order]) when every member is a literal type; otherwise to oneOfType(L), L
\* the non-null convert(m) of its members in order; and to null, never to a
\* validator with an empty list, when no member survives.
C6_UnionRules ==
    (fn = "convert" /\ type.type \in {"TSUnionType", "TSIntersectionType"}) =>
        LET ms == type.types
            converted == [i \in 1..Len(ms) |-> convert(ms[i], reactImportedName)]
            L == SelectSeq(converted, LAMBDA v : v # Null)
        IN IF \A i \in 1..Len(ms) : ms[i].type = "TSLiteralType"
           THEN ret = PTCall("oneOf", <<Arr([i \in 1..Len(ms) |-> ms[i].literal])>>)
           ELSE IF L = <<>> THEN ret = Null
           ELSE ret = PTCall("oneOfType", <<Arr(L)>>)

C6_Witness ==
    /\ fn = "convert"
    /\ type = TSUnionType(<<LitA, TSString>>)
    /\ ret = PTCall("oneOfType", <<Arr(<<PT("string")>>)>>)

\* C7: parenthesized nodes are transparent: convert(ParenthesizedType{T}, a)
\* equals convert(T, a) for every T, a ParenthesizedType included.
C7_ParenthesesTransparent ==
    (fn = "convert" /\ type.type = "TSParenthesizedType") =>
        ret = convert(type.typeAnnotation, reactImportedName)

\* C8: an ArrayType never converts to null: it converts to arrayOf(V), one
\* argument, when its element type converts to V, and to array otherwise.
C8_ArrayNeverNull ==
    (fn = "convert" /\ type.type = "TSArrayType") =>
        LET V == convert(type.elementType, reactImportedName) IN
        /\ ret # Null
        /\ ret = IF V # Null THEN PTCall("arrayOf", <<V>>) ELSE PT("array")

C8_Witness ==
    /\ fn = "convert"
    /\ type = TSArrayType(TSAny)
    /\ ret = PT("array")

\* A well-formed validator expression: PropTypes.<name>, or a call of
\* PropTypes.<factory> on one argument of the factory's kind.
RECURSIVE C9_IsValidator(_)
C9_IsValidator(e) ==
    \/ /\ e.type = "MemberExpression"
       /\ e.object = Ident("PropTypes")
       /\ e.property.type = "Identifier"
    \/ /\ e.type = "CallExpression"
       /\ e.callee.type = "MemberExpression"
       /\ e.callee.object = Ident("PropTypes")
       /\ Len(e.arguments) = 1
       /\ LET f == e.callee.property.name
              arg == e.arguments[1]
          IN CASE f \in {"arrayOf", "objectOf"} -> C9_IsValidator(arg)
               [] f = "oneOfType" ->
                    /\ arg.type = "ArrayExpression"
                    /\ Len(arg.elements) >= 1
                    /\ \A i \in 1..Len(arg.elements) : C9_IsValidator(arg.elements[i])
               [] f = "oneOf" ->
                    /\ arg.type = "ArrayExpression"
                    /\ Len(arg.elements) >= 1
                    /\ \A i \in 1..Len(arg.elements) :
                          arg.elements[i].type = "StringLiteral"
               [] f = "shape" ->
                    /\ arg.type = "ObjectExpression"
                    /\ \A i \in 1..Len(arg.properties) :
                          LET p == arg.properties[i] IN
                          /\ p.type = "ObjectProperty"
                          /\ C9_IsValidator(IF IsRequiredNode(p.value)
                                            THEN p.value.object ELSE p.value)
               [] OTHER -> FALSE

C9_IsAssignmentList(out) ==
    \A i \in 1..Len(out) :
        /\ out[i].type = "ObjectProperty"
        /\ out[i].key.type = "Identifier"
        /\ C9_IsValidator(IF IsRequiredNode(out[i].value)
                          THEN out[i].value.object ELSE out[i].value)

RECURSIVE C10_Bare(_)
C10_Bare(e) ==
    /\ ~IsRequiredNode(e)
    /\ e.type = "CallExpression" =>
        LET f == e.callee.property.name
            arg == e.arguments[1]
        IN CASE f \in {"arrayOf", "objectOf"} -> C10_Bare(arg)
             [] f \in {"oneOfType", "oneOf"} ->
                  \A i \in 1..Len(arg.elements) : C10_Bare(arg.elements[i])
             [] f = "shape" ->
                  \A i \in 1..Len(arg.properties) :
                      LET v == arg.properties[i].value IN
                      C10_Bare(IF IsRequiredNode(v) THEN v.object ELSE v)
             [] OTHER -> FALSE

\* The assignments `out` made from the property signatures `props`: each value
\* is wrapped in .isRequired exactly when its property's optional flag is not
\* true, and is otherwise bare.
C10_FlagsFollowOptional(props, out, a) ==
    LET kept == Classifiable(props, a) IN
    /\ Len(out) = Len(kept)
    /\ \A j \in 1..Len(out) :
        /\ IsRequiredNode(out[j].value) <=> kept[j].optional # "true"
        /\ C10_Bare(IF IsRequiredNode(out[j].value) THEN out[j].value.object
                    ELSE out[j].value)

\* C10: in every expression produced, .isRequired occurs only as the outermost
\* node of a property assignment's value, at top level or in a shape at any
\* depth, and there exactly when the property's optional flag is not true; the
\* arguments of arrayOf and objectOf, the elements of oneOfType, oneOf and the
\* Ref union, and the value convert returns are never .isRequired accesses.
C10_IsRequiredOnlyOnPropertyValues ==
    /\ fn = "convert" =>
        /\ ret # Null => C10_Bare(ret)
        /\ (ret # Null /\ ret.type = "CallExpression"
              /\ ret.callee.property.name = "shape") =>
             LET lit == IF type.type = "TSParenthesizedType"
                        THEN type.typeAnnotation ELSE type
             IN C10_FlagsFollowOptional(C5_PropertyMembers(lit.members),
                                        ret.arguments[1].properties, reactImportedName)
    /\ fn = "convertListToProps" =>
        C10_FlagsFollowOptional(properties, ret, reactImportedName)
    /\ fn = "convertToPropTypes" =>
        LET n == Len(typeNames)
            All[i \in 0..n] ==
                IF i = 0 THEN <<>>
                ELSE All[i - 1] \o (IF typeNames[i] \in DOMAIN types
                                    THEN types[typeNames[i]] ELSE <<>>)
        IN C10_FlagsFollowOptional(All[n], ret, reactImportedName)

C10_Witness ==
    /\ fn = "convert"
    /\ type = TSTypeLiteral(
         <<TSPropertySignature(Ident("label"),
              TSTypeAnnotation(TSTypeLiteral(
                 <<TSPropertySignature(Ident("label"), TSTypeAnnotation(TSString),
                                       "false")>>)), "true"),
           TSPropertySignature(Ident("onClick"), TSTypeAnnotation(TSString), "undefined")>>)
    /\ ret = PTCall("shape", <<Obj(
         <<Assign("label", PTCall("shape", <<Obj(
              <<Assign("label", Required(PT("string")))>>)>>)),
           Assign("onClick", Required(PT("string")))>>)>>)

=============================================================================
